---- MODULE Spec2Model ----
(***************************************************************************)
(* A model of the two converters of root2json:                             *)
(*   j2r.py  find_hist, is_logarithmic, json2root and its __main__ block   *)
(*   r2j.py  convert1Dhisto/2D/3D, convertTFile, root2json and __main__    *)
(*                                                                         *)
(* Strings are sequences of one-character strings, so that concatenation,  *)
(* prefix tests and sorting are computed and not assumed.  Python's None   *)
(* is the one-element sequence <<"None">>, which no string equals.         *)
(* A JSON value is a pair <<tag, payload>>:                                *)
(*   <<"num",  x>>      a number, x a Num (see below)                      *)
(*   <<"list", vs>>     a list, vs the sequence of its values              *)
(*   <<"dict", kvs>>    a dict, kvs the sequence of its <<key, value>>     *)
(*                      items in iteration order, keys pairwise distinct   *)
(***************************************************************************)
EXTENDS Integers, Sequences, FiniteSets, TLC

VARIABLES
    pc,        \* where the running program is
    data,      \* json2root: the document as json.load returned it
    histlist,  \* find_hist: the dict object of the default argument
    hists,     \* json2root: the mapping the last find_hist call returned
    mode,      \* how find_hist was last called: "default" or "fresh"
    ncalls,    \* calls of find_hist so far in this process
    todo,      \* json2root: the keys hists.iteritems() has yet to yield
    rhists,    \* json2root: the histograms built so far
    outfile,   \* the output file of the run
    exitcode,  \* the exit status of the run, -1 while it runs
    back,      \* what r2j.py reads back from the file j2r.py wrote
    rfile,     \* r2j.py: the keys of the input container, a tree
    zombie,    \* r2j.py: whether the input container fails to open
    stack,     \* r2j.py: the convertTFile calls in progress, innermost last
    result,    \* r2j.py: what root2json returned
    hobj,      \* a histogram handed to convert1Dhisto/2D/3D
    hrec       \* the dict the conversion returned

fvars == <<mode, ncalls>>
jvars == <<todo, rhists, outfile, exitcode, back>>
rvars == <<rfile, zombie, stack, result>>
avars == <<hobj, hrec>>
vars == <<pc, data, histlist, hists, mode, ncalls, todo, rhists, outfile,
          exitcode, back, rfile, zombie, stack, result, hobj, hrec>>

(***************************************************************************)
(* Bounds of the model.                                                    *)
(***************************************************************************)
MaxDepth == 2
MaxCalls == 2
MaxBins == 2
MaxTreeDepth == 2
MaxEdge == 3

(***************************************************************************)
(* Strings.                                                                *)
(***************************************************************************)
None == <<"None">>
EmptyStr == <<>>
Sep == <<"_">>

\* The characters the model uses, in code-point order.
Alphabet ==
    <<"0", "1", "2", "3", "4", "5", "6", "7", "8", "9", "_",
      "a", "b", "c", "e", "i", "m", "n", "p", "r", "s", "t", "x", "z">>

Ord(c) == CHOOSE i \in 1..Len(Alphabet) : Alphabet[i] = c

RECURSIVE StrLess(_, _)
\* Python's s < t on strings: lexicographic by code point.
StrLess(s, t) ==
    IF Len(t) = 0 THEN FALSE
    ELSE IF Len(s) = 0 THEN TRUE
    ELSE IF Ord(s[1]) # Ord(t[1]) THEN Ord(s[1]) < Ord(t[1])
    ELSE StrLess(Tail(s), Tail(t))

RECURSIVE Insert(_, _)
Insert(k, sortedseq) ==
    IF Len(sortedseq) = 0 THEN <<k>>
    ELSE IF StrLess(sortedseq[1], k)
         THEN <<sortedseq[1]>> \o Insert(k, Tail(sortedseq))
         ELSE <<k>> \o sortedseq

RECURSIVE sorted(_)
\* sorted(obj.keys()) on a sequence of strings.
sorted(ks) ==
    IF Len(ks) = 0 THEN <<>> ELSE Insert(ks[1], sorted(Tail(ks)))

Digits == <<"0", "1", "2", "3", "4", "5", "6", "7", "8", "9">>

RECURSIVE str(_)
\* str(x) of a non-negative int: its decimal digits.
str(n) ==
    IF n < 10 THEN <<Digits[n + 1]>>
    ELSE str(n \div 10) \o <<Digits[(n % 10) + 1]>>

\* `if histkey`: None and '' are both false.
Truthy(s) == s # None /\ s # EmptyStr

ebinsK == <<"e", "b", "i", "n", "s">>
czbinsK == <<"c", "z", "b", "i", "n", "s">>
mapK == <<"m", "a", "p">>
extraK == <<"e", "x", "t", "r", "a">>
K_a == <<"a">>
K_b == <<"b">>
K_a_b == <<"a", "_", "b">>

(***************************************************************************)
(* Numbers.  A Num is <<"v", n>>, the integer n, or <<"lg", n>>, the real  *)
(* log10(n) of a positive integer n that is no power of ten, or            *)
(* <<"p10", k>>, the real 10^k for an integer k < 0.                       *)
(***************************************************************************)
V(n) == <<"v", n>>
N(n) == <<"num", V(n)>>

(***************************************************************************)
(* JSON values.                                                            *)
(***************************************************************************)
Tag(obj) == obj[1]
Items(obj) == obj[2]
List(vs) == <<"list", vs>>
Dict(kvs) == <<"dict", kvs>>
NumList(ns) == List([i \in 1..Len(ns) |-> N(ns[i])])
Grid(rows) == List([i \in 1..Len(rows) |-> NumList(rows[i])])

\* type(obj)==dict, obj.keys() and len(obj)
IsDict(obj) == Tag(obj) = "dict"
IsList(obj) == Tag(obj) = "list"
DictKeys(obj) == [i \in 1..Len(Items(obj)) |-> Items(obj)[i][1]]
DictValues(obj) == [i \in 1..Len(Items(obj)) |-> Items(obj)[i][2]]
PyLen(obj) == Len(Items(obj))

NoHist == [name |-> <<>>, axes |-> <<>>, content |-> <<>>]
NoRec == [ebins |-> <<>>]

\* The output file before the run touches it.
Untouched == [state |-> "untouched", content |-> <<>>]

\* A dict (histlist) as a function from its keys.
EmptyMap == [k \in {} |-> 0]
\* A faulty variant the properties must tell apart: an existing entry is kept, not overwritten.
Put_keep_first(m, k, v) ==
    [x \in (DOMAIN m) \cup {k} |-> IF x \in DOMAIN m THEN m[x] ELSE v]

\* histlist[histkey]=obj
Put(m, k, v) == [x \in (DOMAIN m) \cup {k} |-> IF x = k THEN v ELSE m[x]]

(***************************************************************************)
(* j2r.py: find_hist                                                       *)
(***************************************************************************)
\* A faulty variant the properties must tell apart: any dict holding the three keys qualifies.
is_hist_superset(obj) ==
    /\ IsDict(obj)
    /\ {czbinsK, ebinsK, mapK} \subseteq {DictKeys(obj)[i] : i \in 1..PyLen(obj)}

is_hist(obj) ==
    IF ~IsDict(obj) THEN FALSE
    ELSE IF sorted(DictKeys(obj)) # <<czbinsK, ebinsK, mapK>> THEN FALSE
    ELSE TRUE

\* keys, values of the loop: a dict's items, or a list's str(index), value.
LoopKeys(obj) ==
    IF IsDict(obj) THEN DictKeys(obj)
    ELSE [i \in 1..PyLen(obj) |-> str(i - 1)]

LoopValues(obj) ==
    IF IsDict(obj) THEN DictValues(obj) ELSE Items(obj)

\* A faulty variant the properties must tell apart: the separator is always written.
newkey_always_sep(histkey, key) ==
    (IF histkey # None THEN histkey \o Sep ELSE EmptyStr) \o key

newkey(histkey, key) ==
    (IF Truthy(histkey) THEN histkey \o Sep ELSE EmptyStr) \o key

RECURSIVE find_hist(_, _, _)
RECURSIVE find_hist_loop(_, _, _, _, _)

\* A faulty variant the properties must tell apart: the loop stops after the first element.
find_hist_loop_first(keys, values, histkey, acc, i) ==
    IF i > 1 \/ i > Len(keys) THEN acc
    ELSE find_hist(values[i], newkey(histkey, keys[i]), acc)

\* for key, value in zip(keys,values): from element i on.
find_hist_loop(keys, values, histkey, acc, i) ==
    IF i > Len(keys) THEN acc
    ELSE find_hist_loop(keys, values, histkey,
                        find_hist(values[i], newkey(histkey, keys[i]), acc),
                        i + 1)

\* find_hist(obj, histkey, histlist): the accumulator after the call (the
\* call returns the accumulator object itself).
find_hist(obj, histkey, acc) ==
    IF is_hist(obj) THEN Put(acc, histkey, obj)
    ELSE IF ~(IsDict(obj) \/ IsList(obj)) THEN acc
    ELSE IF PyLen(obj) = 0 THEN acc
    ELSE find_hist_loop(LoopKeys(obj), LoopValues(obj), histkey, acc, 1)

(***************************************************************************)
(* The documents find_hist is called on.                                   *)
(***************************************************************************)
\* {"ebins":[1,10,100],"czbins":[-1,0,1],"map":[[1,2],[3,4]]}
Hlog ==
    Dict(<< <<ebinsK, NumList(<<1, 10, 100>>)>>,
            <<czbinsK, NumList(<<0 - 1, 0, 1>>)>>,
            <<mapK, Grid(<< <<1, 2>>, <<3, 4>> >>)>> >>)

\* {"map":[[5],[6]],"czbins":[-1,1],"ebins":[1,2,3]}
Hlin ==
    Dict(<< <<mapK, Grid(<< <<5>>, <<6>> >>)>>,
            <<czbinsK, NumList(<<0 - 1, 1>>)>>,
            <<ebinsK, NumList(<<1, 2, 3>>)>> >>)

\* The three keys and one more, which holds a record.
Hsuper ==
    Dict(<< <<ebinsK, NumList(<<1, 2>>)>>,
            <<czbinsK, NumList(<<0, 1>>)>>,
            <<mapK, Grid(<< <<9>> >>)>>,
            <<extraK, Hlin>> >>)

\* Two of the three keys; "map" holds a record.
Hsub == Dict(<< <<ebinsK, NumList(<<1, 2>>)>>, <<mapK, Hlog>> >>)

\* A record whose "map" is a record again.
Hnest ==
    Dict(<< <<czbinsK, NumList(<<0, 1>>)>>,
            <<ebinsK, NumList(<<1, 2>>)>>,
            <<mapK, Hlin>> >>)

NoData == <<"nodata", <<>>>>

Leaves == {N(7), Dict(<<>>), List(<<>>), Hlog, Hlin, Hsuper, Hsub, Hnest}

DocKeys == {K_a, K_b, K_a_b, EmptyStr}

Singles(X) ==
    {Dict(<< <<k, x>> >>) : k \in DocKeys, x \in X}
        \cup {List(<<x>>) : x \in X}
        \cup {List(<<N(7), x>>) : x \in X}

Pairs(X) ==
    {Dict(<< <<kk[1], xy[1]>>, <<kk[2], xy[2]>> >>) :
        kk \in {q \in DocKeys \X DocKeys : q[1] # q[2]}, xy \in X \X X}

Triples(X) ==
    {Dict(<< <<kk[1], x[1]>>, <<kk[2], x[2]>>, <<kk[3], x[3]>> >>) :
        kk \in {q \in DocKeys \X DocKeys \X DocKeys :
                    q[1] # q[2] /\ q[1] # q[3] /\ q[2] # q[3]},
        x \in X \X X \X X}

RECURSIVE Chain(_)
Chain(n) == IF n = 0 THEN Leaves ELSE Leaves \cup Singles(Chain(n - 1))

Docs ==
    Chain(MaxDepth)
        \cup Pairs(Leaves \cup Singles({Hlog, Hlin}))
        \cup Triples({Hlog, Hlin, Dict(<< <<K_b, Hlog>> >>), List(<<Hlin>>)})

\* The documents of the later calls of one process.
Again ==
    {Dict(<< <<K_a, Hlog>> >>), Dict(<< <<K_b, Hlin>> >>), N(7)}

(***************************************************************************)
(* Calls of find_hist in one process.  histlist is the dict object bound   *)
(* to the default argument histlist={} when the def statement ran; it      *)
(* lives as long as the process.                                           *)
(***************************************************************************)
InitFind ==
    /\ pc = "idle"
    /\ data = NoData
    /\ histlist = EmptyMap
    /\ hists = EmptyMap
    /\ mode = "none"
    /\ ncalls = 0
    /\ todo = {}
    /\ rhists = <<>>
    /\ outfile = Untouched
    /\ exitcode = 0 - 1
    /\ back = EmptyMap
    /\ rfile = <<>>
    /\ zombie = FALSE
    /\ stack = <<>>
    /\ result = EmptyMap
    /\ hobj = NoHist
    /\ hrec = NoRec

\* data = json.load(open(infile))
Load(d) ==
    /\ pc = "idle"
    /\ ncalls < MaxCalls
    /\ pc' = "loaded"
    /\ data' = d
    /\ ncalls' = ncalls + 1
    /\ UNCHANGED <<histlist, hists, mode, jvars, rvars, avars>>

\* hists = find_hist(data), as json2root calls it: the accumulator is the
\* default object, which the call updates in place and returns.
CallDefault ==
    /\ pc = "loaded"
    /\ hists' = find_hist(data, None, histlist)
    /\ histlist' = hists'
    /\ mode' = "default"
    /\ pc' = "found"
    /\ UNCHANGED <<data, ncalls, jvars, rvars, avars>>

\* find_hist(data, histlist={}): the caller passes a new dict.
CallFresh ==
    /\ pc = "loaded"
    /\ hists' = find_hist(data, None, EmptyMap)
    /\ mode' = "fresh"
    /\ pc' = "found"
    /\ UNCHANGED <<data, histlist, ncalls, jvars, rvars, avars>>

\* The caller returns; its locals go, the default object stays.
Return ==
    /\ pc = "found"
    /\ pc' = "idle"
    /\ data' = NoData
    /\ hists' = EmptyMap
    /\ mode' = "none"
    /\ UNCHANGED <<histlist, ncalls, jvars, rvars, avars>>

NextFind ==
    \/ \E d \in (IF ncalls = 0 THEN Docs ELSE Again) : Load(d)
    \/ CallDefault
    \/ CallFresh
    \/ Return

Spec == InitFind /\ [][NextFind]_vars

(***************************************************************************)
(* What the claims about find_hist speak of: the nodes of a document by    *)
(* position (the sequence of child numbers from the root), the child keys  *)
(* on the way, and the names the specification gives them.                 *)
(***************************************************************************)
KidCount(obj) == IF Tag(obj) \in {"dict", "list"} THEN Len(obj[2]) ELSE 0
Kid(obj, i) == IF Tag(obj) = "dict" THEN obj[2][i][2] ELSE obj[2][i]
KidKey(obj, i) == IF Tag(obj) = "dict" THEN obj[2][i][1] ELSE <<Digits[i]>>

RECURSIVE Positions(_)
Positions(obj) ==
    {<<>>} \cup UNION {{<<i>> \o p : p \in Positions(Kid(obj, i))} :
                          i \in 1..KidCount(obj)}

RECURSIVE NodeAt(_, _)
NodeAt(obj, p) == IF p = <<>> THEN obj ELSE NodeAt(Kid(obj, p[1]), Tail(p))

RECURSIVE KeyChain(_, _)
KeyChain(obj, p) ==
    IF p = <<>> THEN <<>>
    ELSE <<KidKey(obj, p[1])>> \o KeyChain(Kid(obj, p[1]), Tail(p))

\* A dict whose key set is exactly {czbins, ebins, map}.
ExactKeys(obj) ==
    /\ Tag(obj) = "dict"
    /\ Len(obj[2]) = 3
    /\ {obj[2][i][1] : i \in 1..3} = {czbinsK, ebinsK, mapK}

Records(doc) == {p \in Positions(doc) : ExactKeys(NodeAt(doc, p))}

ProperPrefix(p, q) == Len(p) < Len(q) /\ SubSeq(q, 1, Len(p)) = p

\* No qualifying record lies inside another.
Disjoint(doc) ==
    LET R == Records(doc) IN \A p, q \in R : ~ProperPrefix(p, q)

\* The qualifying records that lie inside no other.
Outer(doc) ==
    LET R == Records(doc) IN {p \in R : \A q \in R : ~ProperPrefix(q, p)}

\* p comes before q in the depth-first, item-order traversal.
Before(p, q) ==
    \E i \in 1..Len(p) :
        /\ i <= Len(q)
        /\ SubSeq(p, 1, i - 1) = SubSeq(q, 1, i - 1)
        /\ p[i] < q[i]

RECURSIVE RuleName(_)
\* parent_path + "_" + child_key, the separator left out when the parent
\* path is empty; the root has no name (None).
RuleName(ks) ==
    IF Len(ks) = 0 THEN None
    ELSE LET parent == RuleName(SubSeq(ks, 1, Len(ks) - 1))
         IN IF parent = None \/ Len(parent) = 0 THEN ks[Len(ks)]
            ELSE parent \o <<"_">> \o ks[Len(ks)]

RECURSIVE JoinName(_)
\* k1 + '_' + k2 + ... + '_' + kn, for n >= 1.
JoinName(ks) ==
    IF Len(ks) = 1 THEN ks[1] ELSE ks[1] \o <<"_">> \o JoinName(Tail(ks))

NameOf(doc, p) == RuleName(KeyChain(doc, p))

NoCollision(doc) ==
    LET R == Records(doc)
    IN \A p, q \in R : p # q => NameOf(doc, p) # NameOf(doc, q)

Found == pc = "found"

\* C1: called with a new empty accumulator on a document whose K qualifying
\* records are pairwise disjoint and get pairwise different names, find_hist
\* returns exactly K entries, each record under its own name.
C1_Completeness ==
    (Found /\ mode = "fresh" /\ Disjoint(data) /\ NoCollision(data)) =>
        /\ Cardinality(DOMAIN hists) = Cardinality(Records(data))
        /\ \A p \in Records(data) :
              /\ NameOf(data, p) \in DOMAIN hists
              /\ hists[NameOf(data, p)] = NodeAt(data, p)

C1_Witness ==
    /\ Found /\ mode = "fresh" /\ Disjoint(data) /\ NoCollision(data)
    /\ Cardinality(Records(data)) = 2
    /\ Cardinality(DOMAIN hists) = 2

\* C2: is_hist holds of a value exactly when it is a dict with the key set
\* {czbins, ebins, map}; nothing else is ever recorded, and a dict with more
\* or fewer keys is recursed into, so the records inside it are found.
C2_Exclusion ==
    Found =>
        /\ \A k \in DOMAIN hists : ExactKeys(hists[k])
        /\ \A p \in Positions(data) :
              is_hist(NodeAt(data, p)) <=> ExactKeys(NodeAt(data, p))
        /\ \A p \in Outer(data) : NameOf(data, p) \in DOMAIN hists

C2_Witness ==
    /\ Found
    /\ \E p \in Positions(data) :
          /\ NodeAt(data, p) = Hsuper
          /\ \A q \in Records(data) : ~ProperPrefix(q, p)
          /\ NameOf(data, p \o <<4>>) \in DOMAIN hists
          /\ NameOf(data, p) \notin DOMAIN hists

\* C8 as stated: the keys of the returned mapping are the strings
\* k1 + '_' + ... + '_' + kn of the records' child keys.
C8_JoinedKeys ==
    (Found /\ mode = "fresh") =>
        \A p \in Outer(data) :
            p # <<>> => JoinName(KeyChain(data, p)) \in DOMAIN hists

\* C8 as amended: the keys of the returned mapping are the names built by
\* the rule child = parent + '_' + key with the separator left out when the
\* parent path is empty (at the root and under a top-level key ''); this is
\* k1 + '_' + ... + '_' + kn whenever the top-level key k1 is not ''.
C8_PathRule ==
    Found =>
        /\ \A p \in Outer(data) : NameOf(data, p) \in DOMAIN hists
        /\ mode = "fresh" =>
              DOMAIN hists = {NameOf(data, p) : p \in Outer(data)}
        /\ \A p \in Outer(data) :
              (p # <<>> /\ KeyChain(data, p)[1] # EmptyStr) =>
                  JoinName(KeyChain(data, p)) \in DOMAIN hists

C8_Witness ==
    /\ Found /\ mode = "fresh"
    /\ \E p \in Outer(data) :
          /\ Len(p) >= 2
          /\ KeyChain(data, p)[1] = EmptyStr
          /\ NameOf(data, p) \in DOMAIN hists
          /\ NameOf(data, p) # JoinName(KeyChain(data, p))

\* C9 as stated: the mapping find_hist(d) returns holds the records of d and
\* nothing else, whatever was called before.
C9_Independent ==
    (Found /\ mode = "default") =>
        DOMAIN hists = {NameOf(data, p) : p \in Outer(data)}

\* C10: a name two records of one document share is one entry of the
\* mapping, and it holds the record visited last; every name has its entry.
C10_LastWins ==
    Found =>
        LET O == Outer(data)
        IN \A p \in O :
              /\ NameOf(data, p) \in DOMAIN hists
              /\ (\A q \in O :
                      NameOf(data, q) = NameOf(data, p) => ~Before(p, q))
                  => hists[NameOf(data, p)] = NodeAt(data, p)

C10_Witness ==
    /\ Found
    /\ \E p, q \in Outer(data) :
          /\ Before(p, q)
          /\ NameOf(data, p) = NameOf(data, q)
          /\ NodeAt(data, p) # NodeAt(data, q)
          /\ hists[NameOf(data, q)] = NodeAt(data, q)
          /\ \E r \in Outer(data) :
                /\ NameOf(data, r) # NameOf(data, p)
                /\ hists[NameOf(data, r)] = NodeAt(data, r)

(***************************************************************************)
(* Numbers of the two converters.  JSON numbers of the model are integers  *)
(* <<"v", n>>.  log10 of a positive integer that is no power of ten is     *)
(* kept as <<"lg", n>>; stored in a float array it is <<"lg32", n>>, and   *)
(* ten to that power is <<"near", n>>: n up to the rounding.  Ten to a     *)
(* integer k outside 0..9 is <<"p10", k>>.  Small integers are exact in    *)
(* float and double.                                                       *)
(***************************************************************************)
RECURSIVE Pow(_, _)
Pow(b, e) == IF e = 0 THEN 1 ELSE b * Pow(b, e - 1)

IsPow10(n) == \E k \in 0..9 : Pow(10, k) = n
Exp10(n) == CHOOSE k \in 0..9 : Pow(10, k) = n

\* numpy.log10 of a positive number
log10(x) ==
    IF x[1] = "v" /\ IsPow10(x[2]) THEN V(Exp10(x[2]))
    ELSE IF x[1] = "v" THEN <<"lg", x[2]>>
    ELSE IF x[1] = "p10" THEN V(x[2])
    ELSE <<"lg", x[2]>>

\* numpy.power(10, x)
power10(x) ==
    IF x[1] = "v" /\ x[2] \in 0..9 THEN V(Pow(10, x[2]))
    ELSE IF x[1] = "v" THEN <<"p10", x[2]>>
    ELSE IF x[1] = "lg" THEN V(x[2])
    ELSE <<"near", x[2]>>

\* array('f', ...) and Float_t: the nearest float
float32(x) == IF x[1] = "lg" THEN <<"lg32", x[2]>> ELSE x

MapSeq(Op(_), xs) == [i \in 1..Len(xs) |-> Op(xs[i])]

(***************************************************************************)
(* j2r.py: is_logarithmic.  The edges are integers.  Element i (from 0) of *)
(* the reference grid logspace(log10(e0), log10(eL), n) is the real g with *)
(* g^(n-1) = e0^(n-1-i) * eL^i.  An integer edge e that is not g differs   *)
(* from it by at least 1/((n-1) * eL^(n-2)), which GapOk keeps above       *)
(* maxdev; the floating-point error of an exact grid is far below maxdev.  *)
(* So the deviation is below maxdev exactly when every edge is on the grid.*)
(***************************************************************************)
InvMaxdev == 100000

AnyNegative(edges) == \E i \in 1..Len(edges) : edges[i][2] < 0

OnGrid(edges, i) ==
    LET m == Len(edges) - 1
    IN Pow(edges[i][2], m)
           = Pow(edges[1][2], m - (i - 1)) * Pow(edges[Len(edges)][2], i - 1)

GapOk(edges) ==
    LET m == Len(edges) - 1
        big == edges[Len(edges)][2]
    IN m <= 1 \/ big <= 0 \/ m * Pow(big, m - 1) < InvMaxdev

\* A faulty variant the properties must tell apart: negative edges are not turned away.
is_logarithmic_no_sign_check(edges) ==
    IF edges[1][2] = 0 \/ edges[Len(edges)][2] = 0 THEN FALSE
    ELSE \A i \in 1..Len(edges) : OnGrid(edges, i)

is_logarithmic(edges) ==
    IF AnyNegative(edges) THEN FALSE
    \* log10(0) is -inf, the grid holds nan, and nan < maxdev is False
    ELSE IF edges[1][2] = 0 \/ edges[Len(edges)][2] = 0 THEN FALSE
    ELSE \A i \in 1..Len(edges) : OnGrid(edges, i)

(***************************************************************************)
(* The histogram library, as far as the converters use it.  An axis is     *)
(* [nbins, xbins]: xbins holds the nbins+1 edges.  A histogram holds its   *)
(* axes and its contents by bin numbers, 0 and nbins+1 being the underflow *)
(* and overflow bins.                                                      *)
(***************************************************************************)
TAxis(nbins, xbins) == [nbins |-> nbins, xbins |-> xbins]
GetNbins(axis) == axis.nbins
GetXmin(axis) == axis.xbins[1]
GetBinUpEdge(axis, ibin) == axis.xbins[ibin + 1]
GetXaxis(hist) == hist.axes[1]
GetYaxis(hist) == hist.axes[2]
GetZaxis(hist) == hist.axes[3]

Clamp(bin, nbins) ==
    IF bin < 0 THEN 0 ELSE IF bin > nbins + 1 THEN nbins + 1 ELSE bin

\* ROOT.TH2F(name, title, nbinsx, xbins, nbinsy, ybins): all contents zero.
TH2F(name, title, nbinsx, xbins, nbinsy, ybins) ==
    [name |-> name, title |-> title,
     axes |-> <<TAxis(nbinsx, xbins), TAxis(nbinsy, ybins)>>,
     content |-> [b \in (0..(nbinsx + 1)) \X (0..(nbinsy + 1)) |-> V(0)],
     xtitle |-> "", ytitle |-> "", stats |-> TRUE,
     labelsize |-> 35, titlesize |-> 35,
     calls |-> <<>>]

\* A faulty variant the properties must tell apart: the two bin numbers are passed in the wrong
\* order.
SetBinContent_swapped(hist, binx, biny, val) ==
    [hist EXCEPT
        !.content[<<Clamp(biny, hist.axes[1].nbins),
                    Clamp(binx, hist.axes[2].nbins)>>] = float32(val),
        !.calls = Append(@, <<biny, binx, val>>)]

\* rhist.SetBinContent(binx, biny, val); calls records the calls made.
SetBinContent(hist, binx, biny, val) ==
    [hist EXCEPT
        !.content[<<Clamp(binx, hist.axes[1].nbins),
                    Clamp(biny, hist.axes[2].nbins)>>] = float32(val),
        !.calls = Append(@, <<binx, biny, val>>)]

GetBinContent2(hist, binx, biny) ==
    hist.content[<<Clamp(binx, hist.axes[1].nbins),
                   Clamp(biny, hist.axes[2].nbins)>>]

(***************************************************************************)
(* j2r.py: json2root                                                       *)
(***************************************************************************)
\* hist['ebins']
DictGet(obj, key) ==
    Items(obj)[CHOOSE i \in 1..PyLen(obj) : Items(obj)[i][1] = key][2]

DictSet(obj, key, val) ==
    Dict([i \in 1..PyLen(obj) |->
             IF Items(obj)[i][1] = key THEN <<key, val>> ELSE Items(obj)[i]])

NumsOf(lst) == [i \in 1..PyLen(lst) |-> Items(lst)[i][2]]
NdArray(xs) == <<"ndarray", [i \in 1..Len(xs) |-> <<"num", xs[i]>>]>>

IsNumList(obj) ==
    /\ Tag(obj) = "list"
    /\ \A i \in 1..PyLen(obj) : Tag(Items(obj)[i]) = "num"

\* numpy.ndenumerate(hist['map']) yields ((ie,icz),val) pairs exactly when
\* the map is an array of two dimensions: rows of numbers of one length.
\* An empty list, or rows that are all empty, yield nothing.
Is2D(m) ==
    /\ Tag(m) = "list"
    /\ \A i \in 1..PyLen(m) : IsNumList(Items(m)[i])
    /\ \A i, j \in 1..PyLen(m) : PyLen(Items(m)[i]) = PyLen(Items(m)[j])

Rows(m) == PyLen(m)
Cols(m) == IF PyLen(m) = 0 THEN 0 ELSE PyLen(Items(m)[1])

\* The pairs in row-major order, indices from 0.
ndenumerate(m) ==
    [n \in 1..(Rows(m) * Cols(m)) |->
        LET ie == (n - 1) \div Cols(m)
            icz == (n - 1) % Cols(m)
        IN <<ie, icz, Items(Items(m)[ie + 1])[icz + 1][2]>>]

RECURSIVE Fill(_, _, _)
\* for (ie,icz),val in ...: rhist.SetBinContent(ie+1,icz+1,val)
Fill(rhist, cells, n) ==
    IF n > Len(cells) THEN rhist
    ELSE Fill(SetBinContent(rhist, cells[n][1] + 1, cells[n][2] + 1,
                            cells[n][3]),
              cells, n + 1)

LogTitle == "log_{10}(E/GeV)"
LinTitle == "E/GeV"

\* hist['ebins'] after the check of the spacing
EbinsFor(hist) ==
    LET edges == NumsOf(DictGet(hist, ebinsK))
    IN IF is_logarithmic(edges) THEN MapSeq(log10, edges) ELSE edges

\* One pass of the loop body for key, hist: the histogram appended.
BuildHist(key, hist) ==
    LET edges == NumsOf(DictGet(hist, ebinsK))
        etitle == IF is_logarithmic(edges) THEN LogTitle ELSE LinTitle
        ebins == EbinsFor(hist)
        czbins == NumsOf(DictGet(hist, czbinsK))
        rhist == TH2F(key, key,
                      Len(ebins) - 1, MapSeq(float32, ebins),
                      Len(czbins) - 1, MapSeq(float32, czbins))
        filled == Fill(rhist, ndenumerate(DictGet(hist, mapK)), 1)
    IN [filled EXCEPT !.xtitle = etitle, !.ytitle = "cos(#theta)",
                      !.stats = FALSE, !.labelsize = 40, !.titlesize = 40]

\* hist['ebins']=numpy.log10(hist['ebins']) changes the record in place.
Mutated(hist) ==
    IF is_logarithmic(NumsOf(DictGet(hist, ebinsK)))
    THEN DictSet(hist, ebinsK, NdArray(EbinsFor(hist)))
    ELSE hist

(***************************************************************************)
(* r2j.py: the edges of an axis and convert2Dhisto                         *)
(***************************************************************************)
\* A faulty variant the properties must tell apart: the loop over the bins stops one bin early.
AxisEdges_short(axis) ==
    <<GetXmin(axis)>> \o
        [ibin \in 1..(GetNbins(axis) - 1) |-> GetBinUpEdge(axis, ibin)]

\* edges += [axis.GetXmin()]
\* for ibin in range(1,axis.GetNbins()+1): edges += [axis.GetBinUpEdge(ibin)]
AxisEdges(axis) ==
    <<GetXmin(axis)>> \o
        [ibin \in 1..GetNbins(axis) |-> GetBinUpEdge(axis, ibin)]

convert2Dhisto(hist) ==
    LET ebins == MapSeq(power10, AxisEdges(GetXaxis(hist)))
        czbins == AxisEdges(GetYaxis(hist))
        dmap == [ebin \in 1..(Len(ebins) - 1) |->
                    [czbin \in 1..(Len(czbins) - 1) |->
                        GetBinContent2(hist, ebin, czbin)]]
    IN [ebins |-> ebins, czbins |-> czbins, map |-> dmap]

(***************************************************************************)
(* The records and documents json2root is run on.                          *)
(***************************************************************************)
RECURSIVE Ascending(_)
\* The elements of a set of integers in ascending order.
Ascending(S) ==
    IF S = {} THEN <<>>
    ELSE LET lo == CHOOSE x \in S : \A y \in S : x <= y
         IN <<lo>> \o Ascending(S \ {lo})

AscSeqs(S) ==
    {Ascending(T) : T \in {U \in SUBSET S :
                              Cardinality(U) \in 2..(MaxBins + 1)}}

EVals == {0 - 1, 0, 1, 2, 3, 4, 10, 100}
CzVals == {0 - 1, 0, 1}

\* A map of r rows and c columns, the cell (i, j) holding 10*i + j.
NumGrid(r, c) == Grid([i \in 1..r |-> [j \in 1..c |-> 10 * i + j]])

Maps ==
    {NumGrid(r, c) : r \in 1..MaxBins, c \in 1..MaxBins}
        \cup {List(<<>>), NumList(<<1, 2>>), N(5)}

Rec(ebins, czbins, m) ==
    Dict(<< <<ebinsK, NumList(ebins)>>, <<czbinsK, NumList(czbins)>>,
            <<mapK, m>> >>)

Recs ==
    {Rec(e, c, m) : e \in {x \in AscSeqs(EVals) :
                              GapOk([i \in 1..Len(x) |-> V(x[i])])},
                    c \in AscSeqs(CzVals), m \in Maps}

J2RDocs ==
    {Dict(<< <<K_a, r>> >>) : r \in Recs}
        \cup {Dict(<< <<K_a, x>>, <<K_b, y>> >>) : x, y \in {Hlog, Hlin}}
        \cup {Dict(<< <<K_a, Hlog>> >>), List(<<Hlog>>),
              Dict(<< <<K_a, Dict(<< <<K_b, Hlin>> >>)>> >>), N(7)}

(***************************************************************************)
(* j2r.py run as a program: json2root, then the __main__ block; and        *)
(* r2j.py reading back the 2D histograms of the file written.              *)
(***************************************************************************)
InitJ2R ==
    /\ pc = "start"
    /\ data = NoData
    /\ histlist = EmptyMap
    /\ hists = EmptyMap
    /\ mode = "none"
    /\ ncalls = 0
    /\ todo = {}
    /\ rhists = <<>>
    /\ outfile = Untouched
    /\ exitcode = 0 - 1
    /\ back = EmptyMap
    /\ rfile = <<>>
    /\ zombie = FALSE
    /\ stack = <<>>
    /\ result = EmptyMap
    /\ hobj = NoHist
    /\ hrec = NoRec

\* data = json.load(open(infile))
J_Load(d) ==
    /\ pc = "start"
    /\ data' = d
    /\ pc' = "loaded"
    /\ UNCHANGED <<histlist, hists, fvars, jvars, rvars, avars>>

\* hists = find_hist(data); rhists=[]
J_Find ==
    /\ pc = "loaded"
    /\ hists' = find_hist(data, None, histlist)
    /\ histlist' = hists'
    /\ mode' = "default"
    /\ ncalls' = ncalls + 1
    /\ todo' = DOMAIN hists'
    /\ rhists' = <<>>
    /\ pc' = "loop"
    /\ UNCHANGED <<data, outfile, exitcode, back, rvars, avars>>

\* One pass of the loop over hists.iteritems(), which yields every key
\* once, in an order of its own.  A map that is no array of two dimensions
\* makes the unpacking of (ie,icz) raise, and the program dies.
J_Build(key) ==
    /\ pc = "loop"
    /\ key \in todo
    /\ IF Is2D(DictGet(hists[key], mapK))
       THEN /\ rhists' = Append(rhists, BuildHist(key, hists[key]))
            /\ hists' = [hists EXCEPT ![key] = Mutated(@)]
            /\ histlist' = hists'
            /\ todo' = todo \ {key}
            /\ UNCHANGED <<pc, exitcode>>
       ELSE /\ pc' = "crashed"
            /\ exitcode' = 1
            /\ hists' = [hists EXCEPT ![key] = Mutated(@)]
            /\ histlist' = hists'
            /\ UNCHANGED <<rhists, todo>>
    /\ UNCHANGED <<data, fvars, outfile, back, rvars, avars>>

\* return rhists
J_Return ==
    /\ pc = "loop"
    /\ todo = {}
    /\ pc' = "main"
    /\ UNCHANGED <<data, histlist, hists, fvars, jvars, rvars, avars>>

\* outfile = ROOT.TFile(args.outfile,'RECREATE'); a zombie ends the run
\* with status 1.
J_OpenOut(isZombie) ==
    /\ pc = "main"
    /\ IF isZombie
       THEN /\ pc' = "exit"
            /\ exitcode' = 1
            /\ UNCHANGED outfile
       ELSE /\ pc' = "write"
            /\ outfile' = [state |-> "open", content |-> <<>>]
            /\ UNCHANGED exitcode
    /\ UNCHANGED <<data, histlist, hists, fvars, todo, rhists, back, rvars,
                   avars>>

\* rhist.Write() for every histogram, outfile.Close(), rhist.Delete()
J_Write ==
    /\ pc = "write"
    /\ outfile' = [state |-> "written", content |-> rhists]
    /\ rhists' = <<>>
    /\ exitcode' = 0
    /\ pc' = "done"
    /\ UNCHANGED <<data, histlist, hists, fvars, todo, back, rvars, avars>>

\* r2j.py on the file: every key is a TH2F, so convert2Dhisto is applied
\* and the result stored under the key's name.
R_ReadBack ==
    /\ pc = "done"
    /\ LET written == outfile.content
       IN back' = [n \in {written[i].name : i \in 1..Len(written)} |->
                      convert2Dhisto(
                          written[CHOOSE i \in 1..Len(written) :
                                      written[i].name = n])]
    /\ pc' = "read"
    /\ UNCHANGED <<data, histlist, hists, fvars, todo, rhists, outfile,
                   exitcode, rvars, avars>>

NextJ2R ==
    \/ \E d \in J2RDocs : J_Load(d)
    \/ J_Find
    \/ \E key \in todo : J_Build(key)
    \/ J_Return
    \/ \E isZombie \in BOOLEAN : J_OpenOut(isZombie)
    \/ J_Write
    \/ R_ReadBack

SpecJ2R == InitJ2R /\ [][NextJ2R]_vars

(***************************************************************************)
(* What the claims about json2root speak of.                               *)
(***************************************************************************)
\* The value a record holds under a key, and a list's numbers.
Field(rec, key) ==
    rec[2][CHOOSE i \in 1..Len(rec[2]) : rec[2][i][1] = key][2]

Nums(lst) == [i \in 1..Len(lst[2]) |-> lst[2][i][2]]

\* The record of the document that got the name key.
OrigRec(key) ==
    LET O == Outer(data)
    IN NodeAt(data, CHOOSE p \in O : NameOf(data, p) = key)

\* len(map) == len(ebins)-1 and len(map[i]) == len(czbins)-1
ShapeOK(rec) ==
    LET m == Field(rec, mapK)
    IN /\ Tag(m) = "list"
       /\ Len(m[2]) = Len(Field(rec, ebinsK)[2]) - 1
       /\ \A i \in 1..Len(m[2]) :
             /\ Tag(m[2][i]) = "list"
             /\ Len(m[2][i][2]) = Len(Field(rec, czbinsK)[2]) - 1

\* Positive edges at equal distances, three or more, that is_logarithmic
\* turns down.
LinearSpaced(e) ==
    /\ Len(e) >= 3
    /\ \A i \in 1..Len(e) : e[i][2] > 0
    /\ \A i \in 2..(Len(e) - 1) : e[i + 1][2] - e[i][2] = e[i][2] - e[i - 1][2]
    /\ ~is_logarithmic(e)

FilledFrom(h, rec) ==
    LET e == Nums(Field(rec, ebinsK))
        c == Nums(Field(rec, czbinsK))
        m == Field(rec, mapK)
        nx == Len(e) - 1
        ny == Len(c) - 1
    IN /\ h.axes[1].nbins = nx
       /\ h.axes[2].nbins = ny
       /\ h.axes[2].xbins = c
       /\ \A ie \in 0..(nx - 1), icz \in 0..(ny - 1) :
             /\ h.content[<<ie + 1, icz + 1>>] = m[2][ie + 1][2][icz + 1][2]
             /\ Cardinality({n \in 1..Len(h.calls) :
                                /\ h.calls[n][1] = ie + 1
                                /\ h.calls[n][2] = icz + 1}) = 1
       /\ \A n \in 1..Len(h.calls) :
             /\ h.calls[n][1] \in 1..nx
             /\ h.calls[n][2] \in 1..ny
       /\ \A b \in DOMAIN h.content :
             (b[1] \notin 1..nx \/ b[2] \notin 1..ny) => h.content[b] = V(0)
       /\ IF is_logarithmic(e)
          THEN /\ h.xtitle = "log_{10}(E/GeV)"
               /\ h.axes[1].xbins = MapSeq(float32, MapSeq(log10, e))
          ELSE /\ h.xtitle = "E/GeV"
               /\ h.axes[1].xbins = e

\* C5: for every record whose map has the shape of its bins, json2root
\* builds one 2D histogram named by the record's path, with len(ebins)-1 by
\* len(czbins)-1 bins, bin (ie+1, icz+1) set once to map[ie][icz], no other
\* bin set, and the log title exactly when is_logarithmic(ebins) holds.
C5_Fill ==
    /\ \A i \in 1..Len(rhists) :
          /\ rhists[i].name \in DOMAIN hists
          /\ \A j \in 1..Len(rhists) : rhists[j].name = rhists[i].name => j = i
          /\ ShapeOK(OrigRec(rhists[i].name)) =>
                FilledFrom(rhists[i], OrigRec(rhists[i].name))
    /\ pc = "main" =>
          {rhists[i].name : i \in 1..Len(rhists)} = DOMAIN hists
    /\ (pc = "main" /\ data = Dict(<< <<K_a, Hlog>> >>)) =>
          /\ Len(rhists) = 1
          /\ rhists[1].name = <<"a">>
          /\ rhists[1].xtitle = "log_{10}(E/GeV)"
          /\ rhists[1].axes[1].nbins = 2 /\ rhists[1].axes[2].nbins = 2
          /\ rhists[1].content[<<1, 1>>] = V(1)
          /\ rhists[1].content[<<1, 2>>] = V(2)
          /\ rhists[1].content[<<2, 1>>] = V(3)
          /\ rhists[1].content[<<2, 2>>] = V(4)

C5_Witness ==
    /\ pc = "main"
    /\ Len(rhists) = 2
    /\ \E i, j \in 1..2 :
          /\ ShapeOK(OrigRec(rhists[i].name))
          /\ Len(rhists[i].calls) = 4
          /\ rhists[i].xtitle = "log_{10}(E/GeV)"
          /\ ShapeOK(OrigRec(rhists[j].name))
          /\ rhists[j].xtitle = "E/GeV"

\* C3 as stated: a record with linear-spaced energy edges comes back from
\* json2root followed by convert2Dhisto with its ebins, czbins and map.
C3_RoundTrip ==
    pc = "read" =>
        \A n \in DOMAIN back :
            (ShapeOK(OrigRec(n))
                /\ LinearSpaced(Nums(Field(OrigRec(n), ebinsK)))) =>
                /\ back[n].ebins = Nums(Field(OrigRec(n), ebinsK))
                /\ back[n].czbins = Nums(Field(OrigRec(n), czbinsK))
                /\ back[n].map =
                      [i \in 1..Len(Field(OrigRec(n), mapK)[2]) |->
                          Nums(Field(OrigRec(n), mapK)[2][i])]

(***************************************************************************)
(* r2j.py: convert1Dhisto, convert3Dhisto                                  *)
(***************************************************************************)
GetBinContent1(h, binx) == h.content[<<binx>>]
GetBinContent3(h, binx, biny, binz) == h.content[<<binx, biny, binz>>]

convert1Dhisto(h) ==
    LET ebins == MapSeq(power10, AxisEdges(GetXaxis(h)))
        dmap == [ebin \in 1..(Len(ebins) - 1) |-> GetBinContent1(h, ebin)]
    IN [ebins |-> ebins, entries |-> dmap]

convert3Dhisto(h) ==
    LET czbins_reco == AxisEdges(GetXaxis(h))
        czbins_true == AxisEdges(GetYaxis(h))
        ebins == MapSeq(power10, AxisEdges(GetZaxis(h)))
        dmap == [czb_re \in 1..(Len(czbins_reco) - 1) |->
                    [czb_tr \in 1..(Len(czbins_true) - 1) |->
                        [ebin \in 1..(Len(ebins) - 1) |->
                            GetBinContent3(h, czb_re, czb_tr, ebin)]]]
    IN [ebins |-> ebins, czbins_true |-> czbins_true,
        czbins_reco |-> czbins_reco, map |-> dmap]

(***************************************************************************)
(* Histograms and containers r2j.py is run on.  A key of a container is    *)
(* <<name, class name, object>>; the object of a directory key is the      *)
(* sequence of the directory's keys.  The names in one directory differ.   *)
(***************************************************************************)
Edges(xs) == TAxis(Len(xs) - 1, [i \in 1..Len(xs) |-> V(xs[i])])

\* Histograms whose bin (i), (i,j), (i,j,k) holds i, 10i+j, 100i+10j+k.
Hist1(name, x) ==
    [name |-> name, axes |-> <<Edges(x)>>,
     content |-> [b \in {<<i>> : i \in 1..(Len(x) - 1)} |-> V(b[1])]]

Hist2(name, x, y) ==
    [name |-> name, axes |-> <<Edges(x), Edges(y)>>,
     content |-> [b \in (1..(Len(x) - 1)) \X (1..(Len(y) - 1)) |->
                     V(10 * b[1] + b[2])]]

Hist3(name, x, y, z) ==
    [name |-> name, axes |-> <<Edges(x), Edges(y), Edges(z)>>,
     content |->
         [b \in (1..(Len(x) - 1)) \X (1..(Len(y) - 1)) \X (1..(Len(z) - 1)) |->
             V(100 * b[1] + 10 * b[2] + b[3])]]

cTH1 == <<"T", "H", "1">>
cTH2 == <<"T", "H", "2">>
cTH3 == <<"T", "H", "3">>
cTDirectoryFile ==
    <<"T", "D", "i", "r", "e", "c", "t", "o", "r", "y", "F", "i", "l", "e">>
cTDirectory == <<"T", "D", "i", "r", "e", "c", "t", "o", "r", "y">>
cTTree == <<"T", "T", "r", "e", "e">>

\* s.startswith(prefix)
startswith(s, prefix) ==
    Len(s) >= Len(prefix) /\ SubSeq(s, 1, Len(prefix)) = prefix

GetName(key) == key[1]
GetClassName(key) == key[2]

\* rfile.Get(name): the object of the key of that name
Get(keys, name) == keys[CHOOSE i \in 1..Len(keys) : keys[i][1] = name][3]

\* The keys a directory can hold under one name.  An object written under
\* another name than its own (hist.Write("a")) keeps its own name.
LeafKeys(name) ==
    {<<name, cTH1 \o <<"F">>, Hist1(name, <<0, 1, 2>>)>>,
     <<name, cTH2 \o <<"D">>, Hist2(name, <<0, 1, 2>>, <<0 - 1, 0, 1>>)>>,
     <<name, cTH3 \o <<"F">>,
       Hist3(name, <<0 - 1, 0, 1>>, <<0 - 1, 0, 1, 2>>, <<0, 1, 2, 3, 4>>)>>,
     <<name, cTH3 \o <<"D">>,
       Hist3(K_a_b, <<0 - 1, 1>>, <<0 - 1, 1>>, <<0, 1>>)>>,
     <<name, cTTree, <<>>>>,
     <<name, cTDirectory, <<>>>>}

\* The keys put next to a subdirectory.
SiblingKeys(name) ==
    {<<name, cTH2 \o <<"D">>, Hist2(name, <<0, 1, 2>>, <<0 - 1, 0, 1>>)>>,
     <<name, cTTree, <<>>>>}

SubdirKey(name, keys) == <<name, cTDirectoryFile, keys>>

FlatDirs ==
    {<<>>} \cup {<<k>> : k \in LeafKeys(K_a)}
           \cup {<<k1, k2>> : k1 \in LeafKeys(K_a), k2 \in LeafKeys(K_b)}

RECURSIVE Dirs(_)
\* Directories nested n deep, at most one subdirectory in each.
Dirs(n) ==
    IF n = 0 THEN FlatDirs
    ELSE FlatDirs
           \cup {<<SubdirKey(K_a, d)>> : d \in Dirs(n - 1)}
           \cup {<<k, SubdirKey(K_b, d)>> :
                    k \in SiblingKeys(K_a), d \in Dirs(n - 1)}
           \cup {<<SubdirKey(K_a, d), k>> :
                    d \in Dirs(n - 1), k \in SiblingKeys(K_b)}

\* Two subdirectories side by side.
TwoSubdirs ==
    LET small == {<<>>} \cup {<<k>> : k \in LeafKeys(K_b)}
    IN {<<SubdirKey(K_a, d1), SubdirKey(K_b, d2)>> : d1, d2 \in small}

Containers == Dirs(MaxTreeDepth) \cup TwoSubdirs

(***************************************************************************)
(* r2j.py run as a program: root2json with convertTFile, then the rest of  *)
(* the __main__ block.  A call of convertTFile is a frame of the stack:    *)
(* the keys it loops over, the number of the next key, its histlist, and   *)
(* the name under which its caller stores what it returns.                 *)
(***************************************************************************)
Frame(keys, name) ==
    [keys |-> keys, i |-> 1, histlist |-> EmptyMap, name |-> name]

InitR2J ==
    /\ pc = "start"
    /\ data = NoData
    /\ histlist = EmptyMap
    /\ hists = EmptyMap
    /\ mode = "none"
    /\ ncalls = 0
    /\ todo = {}
    /\ rhists = <<>>
    /\ outfile = Untouched
    /\ exitcode = 0 - 1
    /\ back = EmptyMap
    /\ rfile \in Containers
    /\ zombie \in BOOLEAN
    /\ stack = <<>>
    /\ result = EmptyMap
    /\ hobj = NoHist
    /\ hrec = NoRec

\* A faulty variant the properties must tell apart: the error is logged and the run goes on.
R_Open_no_exit ==
    /\ pc = "start"
    /\ pc' = "convert"
    /\ stack' = <<Frame(IF zombie THEN <<>> ELSE rfile, <<>>)>>
    /\ UNCHANGED <<data, histlist, hists, fvars, jvars, rfile, zombie, result,
                   avars>>

\* rfile = ROOT.TFile(infile); a zombie ends the run with status 1,
\* otherwise convertTFile(rfile) is called.
R_Open ==
    /\ pc = "start"
    /\ IF zombie
       THEN /\ pc' = "exit"
            /\ exitcode' = 1
            /\ UNCHANGED stack
       ELSE /\ pc' = "convert"
            /\ stack' = <<Frame(rfile, <<>>)>>
            /\ UNCHANGED exitcode
    /\ UNCHANGED <<data, histlist, hists, fvars, todo, rhists, outfile, back,
                   rfile, zombie, result, avars>>

Stored(frame, name, value) ==
    [frame EXCEPT !.i = @ + 1, !.histlist = Put(@, name, value)]

\* A faulty variant the properties must tell apart: a key of an unknown kind ends the loop.
StepKey_abort(stk) ==
    LET top == stk[Len(stk)]
        key == top.keys[top.i]
        cls == GetClassName(key)
        obj == Get(top.keys, GetName(key))
    IN IF startswith(cls, cTH1)
       THEN [stk EXCEPT ![Len(stk)] =
                Stored(top, GetName(key), <<"hist", convert1Dhisto(obj)>>)]
       ELSE IF startswith(cls, cTH2)
       THEN [stk EXCEPT ![Len(stk)] =
                Stored(top, GetName(key), <<"hist", convert2Dhisto(obj)>>)]
       ELSE IF startswith(cls, cTH3)
       THEN [stk EXCEPT ![Len(stk)] =
                Stored(top, obj.name, <<"hist", convert3Dhisto(obj)>>)]
       ELSE IF cls = cTDirectoryFile
       THEN Append(stk, Frame(obj, GetName(key)))
       ELSE [stk EXCEPT ![Len(stk)].i = Len(top.keys) + 1]

\* One pass of the loop over rfile.GetListOfKeys(): the stack after it.
StepKey(stk) ==
    LET top == stk[Len(stk)]
        key == top.keys[top.i]
        cls == GetClassName(key)
        obj == Get(top.keys, GetName(key))
    IN IF startswith(cls, cTH1)
       THEN [stk EXCEPT ![Len(stk)] =
                Stored(top, GetName(key), <<"hist", convert1Dhisto(obj)>>)]
       ELSE IF startswith(cls, cTH2)
       THEN [stk EXCEPT ![Len(stk)] =
                Stored(top, GetName(key), <<"hist", convert2Dhisto(obj)>>)]
       ELSE IF startswith(cls, cTH3)
       THEN [stk EXCEPT ![Len(stk)] =
                Stored(top, obj.name, <<"hist", convert3Dhisto(obj)>>)]
       ELSE IF cls = cTDirectoryFile
       \* subfile = rfile.Get(key.GetName()); convertTFile(subfile) starts
       THEN Append(stk, Frame(obj, GetName(key)))
       \* logging.debug('Skipping objekt ...'); continue
       ELSE [stk EXCEPT ![Len(stk)].i = @ + 1]

R_Key ==
    /\ pc = "convert"
    /\ stack[Len(stack)].i <= Len(stack[Len(stack)].keys)
    /\ stack' = StepKey(stack)
    /\ UNCHANGED <<pc, data, histlist, hists, fvars, jvars, rfile, zombie,
                   result, avars>>

\* return histlist: to the convertTFile that called, which stores it under
\* subfile.GetName(), or to root2json.
R_EndDir ==
    /\ pc = "convert"
    /\ stack[Len(stack)].i > Len(stack[Len(stack)].keys)
    /\ IF Len(stack) > 1
       THEN /\ stack' =
                [SubSeq(stack, 1, Len(stack) - 1) EXCEPT ![Len(stack) - 1] =
                    Stored(@, stack[Len(stack)].name,
                           <<"dir", stack[Len(stack)].histlist>>)]
            /\ UNCHANGED <<pc, result>>
       ELSE /\ stack' = <<>>
            /\ result' = stack[1].histlist
            /\ pc' = "converted"
    /\ UNCHANGED <<data, histlist, hists, fvars, jvars, rfile, zombie, avars>>

\* d[key].tolist(): the array as nested lists
tolist(a) == <<"list", a>>

RECURSIVE numpy2list(_)
\* numpy2list(d): a dict is walked (a histogram record is a dict of arrays,
\* a subdirectory a dict of such), an array is replaced by its list.
numpy2list(d) ==
    [key \in DOMAIN d |->
        IF d[key][1] = "dir"
        THEN <<"dir", numpy2list(d[key][2])>>
        ELSE <<"hist", [f \in DOMAIN d[key][2] |-> tolist(d[key][2][f])]>>]

\* numpy2list(histlist), which changes histlist in place; then
\* with open(args.outfile,'w') as ofile: json.dump(histlist,ofile)
R_Dump ==
    /\ pc = "converted"
    /\ result' = numpy2list(result)
    /\ outfile' = [state |-> "written", content |-> numpy2list(result)]
    /\ exitcode' = 0
    /\ pc' = "done"
    /\ UNCHANGED <<data, histlist, hists, fvars, todo, rhists, back, rfile,
                   zombie, stack, avars>>

NextR2J ==
    \/ R_Open
    \/ R_Key
    \/ R_EndDir
    \/ R_Dump

SpecR2J == InitR2J /\ [][NextR2J]_vars

(***************************************************************************)
(* Claims about r2j.py as a program                                        *)
(***************************************************************************)
HasPrefix(s, prefix) ==
    /\ Len(s) >= Len(prefix)
    /\ \A i \in 1..Len(prefix) : s[i] = prefix[i]

IsHistClass(cls) ==
    HasPrefix(cls, cTH1) \/ HasPrefix(cls, cTH2) \/ HasPrefix(cls, cTH3)

Recognised(cls) == IsHistClass(cls) \/ cls = cTDirectoryFile

RecordOf(key) ==
    IF HasPrefix(key[2], cTH1) THEN convert1Dhisto(key[3])
    ELSE IF HasPrefix(key[2], cTH2) THEN convert2Dhisto(key[3])
    ELSE convert3Dhisto(key[3])

FieldsOf(key) ==
    IF HasPrefix(key[2], cTH1) THEN {"ebins", "entries"}
    ELSE IF HasPrefix(key[2], cTH2) THEN {"ebins", "czbins", "map"}
    ELSE {"ebins", "czbins_reco", "czbins_true", "map"}

RECURSIVE Mirror(_)
\* The mapping that mirrors a directory: one key per recognised entry, named
\* as the entry.
Mirror(keys) ==
    LET idx == {i \in 1..Len(keys) : Recognised(keys[i][2])}
    IN [n \in {keys[i][1] : i \in idx} |->
          LET key == keys[CHOOSE i \in idx : keys[i][1] = n]
          IN IF IsHistClass(key[2])
             THEN <<"hist", RecordOf(key)>>
             ELSE <<"dir", Mirror(key[3])>>]

RECURSIVE Shaped(_, _)
\* Every histogram entry holds a record with the fields of its kind.
Shaped(keys, m) ==
    \A i \in 1..Len(keys) :
        Recognised(keys[i][2]) =>
            /\ keys[i][1] \in DOMAIN m
            /\ IF IsHistClass(keys[i][2])
               THEN /\ m[keys[i][1]][1] = "hist"
                    /\ DOMAIN m[keys[i][1]][2] = FieldsOf(keys[i])
               ELSE /\ m[keys[i][1]][1] = "dir"
                    /\ Shaped(keys[i][3], m[keys[i][1]][2])

\* C6: when convertTFile has returned, the result has at each level exactly
\* the names of the entries whose class starts with TH1, TH2 or TH3 or is
\* TDirectoryFile; a histogram entry maps to its record, a subdirectory to
\* the result for that subdirectory, and entries of other kinds are left out
\* without stopping the conversion of the entries around them.
C6_TreeMirror ==
    pc = "converted" =>
        /\ result = Mirror(rfile)
        /\ Shaped(rfile, result)

\* The name convertTFile stores an entry under.
StoredName(key) == IF HasPrefix(key[2], cTH3) THEN key[3].name ELSE key[1]

RECURSIVE Converted(_, _)
\* Every recognised entry of the directory, at every depth, is in m.
Converted(keys, m) ==
    \A i \in 1..Len(keys) :
        Recognised(keys[i][2]) =>
            /\ StoredName(keys[i]) \in DOMAIN m
            /\ IsHistClass(keys[i][2]) =>
                   /\ m[StoredName(keys[i])][1] = "hist"
                   /\ DOMAIN m[StoredName(keys[i])][2] = FieldsOf(keys[i])
            /\ keys[i][2] = cTDirectoryFile =>
                   /\ m[keys[i][1]][1] = "dir"
                   /\ Converted(keys[i][3], m[keys[i][1]][2])

\* C7: a container that cannot be opened ends the run with status 1 with no
\* entry converted and the output file neither opened nor written; the
\* output file is written only when the whole container has been converted,
\* and holds the result.
C7_OpenFailure ==
    /\ (zombie /\ pc # "start") =>
           /\ pc = "exit"
           /\ exitcode = 1
           /\ stack = <<>>
           /\ result = EmptyMap
           /\ outfile = Untouched
    /\ outfile # Untouched =>
           /\ ~zombie
           /\ pc = "done"
           /\ stack = <<>>
           /\ outfile.state = "written"
           /\ Converted(rfile, outfile.content)
           /\ exitcode = 0

\* A container with entries that cannot be opened: the run has ended.
C7_Witness ==
    /\ zombie
    /\ pc = "exit"
    /\ exitcode = 1
    /\ outfile = Untouched
    /\ Len(rfile) = 2
    /\ \E i \in 1..2 : rfile[i][2] = cTDirectoryFile /\ Len(rfile[i][3]) > 0

(***************************************************************************)
(* The convert functions of r2j.py run on single histograms                *)
(***************************************************************************)
\* Edge lists of 1 to n bins with ascending values of S.
AscEdges(S, n) ==
    {xs \in UNION {[1..len -> S] : len \in 2..(n + 1)} :
        \A i \in 1..(Len(xs) - 1) : xs[i] < xs[i + 1]}

EnergyEdges == AscEdges((0 - 1)..MaxEdge, MaxEdge + 1)
CosEdges == AscEdges((0 - 1)..2, 3)

AxisHists ==
    {Hist1(K_a, x) : x \in EnergyEdges}
        \cup {Hist2(K_a, x, y) : x \in EnergyEdges, y \in CosEdges}
        \cup {Hist3(K_a, x, y, z) :
                 x \in CosEdges, y \in CosEdges, z \in EnergyEdges}

InitAxis ==
    /\ pc = "start"
    /\ data = NoData
    /\ histlist = EmptyMap
    /\ hists = EmptyMap
    /\ mode = "none"
    /\ ncalls = 0
    /\ todo = {}
    /\ rhists = <<>>
    /\ outfile = Untouched
    /\ exitcode = 0 - 1
    /\ back = EmptyMap
    /\ rfile = <<>>
    /\ zombie = FALSE
    /\ stack = <<>>
    /\ result = EmptyMap
    /\ hobj \in AxisHists
    /\ hrec = NoRec

Conv1D ==
    /\ pc = "start"
    /\ Len(hobj.axes) = 1
    /\ hrec' = convert1Dhisto(hobj)
    /\ pc' = "done"
    /\ UNCHANGED <<data, histlist, hists, fvars, jvars, rvars, hobj>>

Conv2D ==
    /\ pc = "start"
    /\ Len(hobj.axes) = 2
    /\ hrec' = convert2Dhisto(hobj)
    /\ pc' = "done"
    /\ UNCHANGED <<data, histlist, hists, fvars, jvars, rvars, hobj>>

Conv3D ==
    /\ pc = "start"
    /\ Len(hobj.axes) = 3
    /\ hrec' = convert3Dhisto(hobj)
    /\ pc' = "done"
    /\ UNCHANGED <<data, histlist, hists, fvars, jvars, rvars, hobj>>

NextAxis ==
    \/ Conv1D
    \/ Conv2D
    \/ Conv3D

SpecAxis == InitAxis /\ [][NextAxis]_vars

\* a < b for the numbers the edge lists hold: integers, and 10^k for the k
\* outside 0..9.
Lt(a, b) ==
    IF a[1] = "v" /\ b[1] = "v" THEN a[2] < b[2]
    ELSE IF a[1] = "p10" /\ b[1] = "p10" THEN a[2] < b[2]
    ELSE IF a[1] = "p10" /\ b[1] = "v" THEN a[2] < 0 /\ b[2] >= 1
    ELSE IF a[1] = "v" /\ b[1] = "p10"
         THEN (b[2] > 9 /\ a[2] <= 1000000000) \/ (a[2] <= 0)
    ELSE FALSE

StrictlyAscending(xs) == \A i \in 1..(Len(xs) - 1) : Lt(xs[i], xs[i + 1])

\* The edge lists of the record with their axes; TRUE marks the energy axis.
EdgeLists ==
    IF Len(hobj.axes) = 1 THEN {<<hrec.ebins, hobj.axes[1], TRUE>>}
    ELSE IF Len(hobj.axes) = 2
    THEN {<<hrec.ebins, hobj.axes[1], TRUE>>,
          <<hrec.czbins, hobj.axes[2], FALSE>>}
    ELSE {<<hrec.czbins_reco, hobj.axes[1], FALSE>>,
          <<hrec.czbins_true, hobj.axes[2], FALSE>>,
          <<hrec.ebins, hobj.axes[3], TRUE>>}

TenTo(x) == IF x \in 0..9 THEN V(Pow(10, x)) ELSE <<"p10", x>>

\* C4: each edge list of a converted 1D, 2D or 3D histogram is the axis
\* minimum followed by the upper edges of bins 1..Nbins in that order (the
\* energy list after 10^x), has Nbins+1 values and is strictly ascending; bin
\* counts (2,3,4) give lists of lengths (3,4,5).
C4_AxisEdges ==
    pc = "done" =>
        /\ \A t \in EdgeLists :
              LET edges == t[1]
                  axis == t[2]
                  val(x) == IF t[3] THEN TenTo(x[2]) ELSE x
              IN /\ Len(edges) = axis.nbins + 1
                 /\ edges[1] = val(axis.xbins[1])
                 /\ \A b \in 1..axis.nbins :
                        edges[b + 1] = val(axis.xbins[b + 1])
                 /\ StrictlyAscending(edges)
        /\ (/\ Len(hobj.axes) = 3
            /\ <<hobj.axes[1].nbins, hobj.axes[2].nbins, hobj.axes[3].nbins>>
                   = <<2, 3, 4>>)
              => <<Len(hrec.czbins_reco), Len(hrec.czbins_true),
                   Len(hrec.ebins)>> = <<3, 4, 5>>

\* A converted 3D histogram with bin counts (2,3,4).
C4_Witness ==
    /\ pc = "done"
    /\ Len(hobj.axes) = 3
    /\ <<hobj.axes[1].nbins, hobj.axes[2].nbins, hobj.axes[3].nbins>>
           = <<2, 3, 4>>
    /\ Len(hrec.ebins) = 5

====
